---------------------------- MODULE Spec2Model ----------------------------
(*************************************************************************)
(* Model of dp_tools/core/check_model.py: the Check / Flag engine with   *)
(* its process-wide registry (Check.allChecks) and the abstract          *)
(* VVProtocol orchestrator.                                               *)
(*                                                                       *)
(* Python objects with identity (Check instances, the flag_desc dicts,   *)
(* the flags lists) live in heaps indexed by reference, so that sharing  *)
(* of a dict or a list between two checks is expressible.                *)
(* Strings that the code inspects character by character (check ids)     *)
(* are sequences of one-character strings.                               *)
(*************************************************************************)
EXTENDS Integers, Sequences, FiniteSets, TLC

VARIABLES
    ALLOWED_DEV_EXCEPTIONS, \* module global, line 26 (monkeypatchable)
    allChecks,              \* Check.allChecks: class-level list of check references
    checks,                 \* heap of Check instances that finished __post_init__
    dicts,                  \* heap of flag_desc dict objects
    lists,                  \* heap of flags list objects
    constructed,            \* history: every Flag that finished __post_init__, in order
    ret,                    \* outcome of the last operation (return value or raised exception)
    protocol,               \* the VVProtocol instance: "none" or "constructed"
    _flags,                 \* VVProtocol._flags
    prev_flags,             \* history: _flags as it was when the last validate_all started
    returned,               \* history: mappings returned by validate_* in the last validate_all
    calls,                  \* history: abstract methods entered by the last validate_all, in order
    runs                    \* history: number of validate_all calls so far

vars == <<ALLOWED_DEV_EXCEPTIONS, allChecks, checks, dicts, lists, constructed,
          ret, protocol, _flags, prev_flags, returned, calls, runs>>

checkVars == <<ALLOWED_DEV_EXCEPTIONS, allChecks, checks, dicts, lists, constructed>>
vvVars == <<protocol, _flags, prev_flags, returned, calls, runs>>

-----------------------------------------------------------------------------
(* Bounds *)

MaxChecks == 2      \* registered checks
MaxFlags == 2       \* flags constructed
MaxRuns == 2        \* validate_all calls

-----------------------------------------------------------------------------
(* Python dicts as sets of <<key, value>> pairs with unique keys *)

Keys(d) == {p[1] : p \in d}
Get(d, k) == (CHOOSE p \in d : p[1] = k)[2]
Put(d, k, v) == {p \in d : p[1] # k} \cup {<<k, v>>}

\* variant: assignment of the returned mapping instead of update
DictAssign(d, other) == other

\* dict.update(other): every key of other is (re)bound to other's value
DictUpdate(d, other) == {p \in d : p[1] \notin Keys(other)} \cup other

Elems(s) == {s[i] : i \in DOMAIN s}
Last(s) == s[Len(s)]

-----------------------------------------------------------------------------
(* str.format with keyword arguments.  A template is a sequence of       *)
(* tokens, <<"lit", text>> or <<"ph", name>> for a "{name}" field.       *)

FormatKeyError == <<"KeyError">>

StrFormat(template, mapping) ==
    IF \A i \in DOMAIN template :
           template[i][1] = "ph" => template[i][2] \in Keys(mapping)
    THEN [i \in DOMAIN template |->
             IF template[i][1] = "ph" THEN Get(mapping, template[i][2])
                                      ELSE template[i][2]]
    ELSE FormatKeyError

-----------------------------------------------------------------------------
(* Exception classes and the "except ALLOWED_DEV_EXCEPTIONS" test *)

ExcParent(c) ==
    CASE c = "KeyError" -> "LookupError"
      [] c = "LookupError" -> "Exception"
      [] c = "AssertionError" -> "Exception"
      [] c = "TypeError" -> "Exception"
      [] c = "ValueError" -> "Exception"
      [] c = "Exception" -> "BaseException"
      [] c = "SystemExit" -> "BaseException"
      [] OTHER -> "BaseException"

RECURSIVE IsSubclass(_, _)
IsSubclass(c, d) ==
    IF c = d THEN TRUE
    ELSE IF c = "BaseException" THEN FALSE
    ELSE IsSubclass(ExcParent(c), d)

\* variant: the handler matches the exact class only, not its subclasses
CaughtExactClass(c) == c \in ALLOWED_DEV_EXCEPTIONS

\* variant: a bare "except BaseException"
CaughtBaseException(c) == IsSubclass(c, "BaseException")

\* does "except ALLOWED_DEV_EXCEPTIONS as e" catch an exception of class c
Caught(c) == \E a \in ALLOWED_DEV_EXCEPTIONS : IsSubclass(c, a)

-----------------------------------------------------------------------------
(* FlagCode (the members the model uses) *)

FlagCode == {"DEV_HANDLED", "DEV_UNHANDLED", "RED1", "YELLOW1", "GREEN"}

DEV_UNHANDLED_TEMPLATE ==
    << <<"lit", "An unhandled exception occured in ">>, <<"ph", "function">>,
       <<"lit", ": ">>, <<"ph", "e">> >>

-----------------------------------------------------------------------------
\* Check ids and the id regular expression of Check.__post_init__, used
\* with re.match: a scope alternation, "_", a run of non-digits, "_",
\* four digits, "$".

COMPONENT == <<"C", "O", "M", "P", "O", "N", "E", "N", "T">>
SAMPLE == <<"S", "A", "M", "P", "L", "E">>
DATASET == <<"D", "A", "T", "A", "S", "E", "T">>
BADSCOPE == <<"B", "A", "D", "S", "C", "O", "P", "E">>

ScopeAlternatives == {COMPONENT, SAMPLE, DATASET}

IsDigit(c) == c \in {"0", "1", "2", "3", "4", "5", "6", "7", "8", "9"}

IsPrefix(p, s) == Len(p) <= Len(s) /\ SubSeq(s, 1, Len(p)) = p

\* "$" without re.MULTILINE: the end of the string, or just before a
\* newline that is the last character of the string
DollarAt(s, i) == i = Len(s) + 1 \/ (i = Len(s) /\ s[i] = "\n")

IdRegexMatch(id) ==
    \E scope \in ScopeAlternatives :
        /\ IsPrefix(scope, id)
        /\ LET u == Len(scope) + 1 IN            \* position of the first "_"
           /\ u <= Len(id)
           /\ id[u] = "_"
           /\ \E k \in 0..(Len(id) - u) :          \* length matched by \D*
                /\ \A j \in (u + 1)..(u + k) : ~IsDigit(id[j])
                /\ u + k + 5 <= Len(id)
                /\ id[u + k + 1] = "_"
                /\ \A j \in (u + k + 2)..(u + k + 5) : IsDigit(id[j])
                /\ DollarAt(id, u + k + 6)


U == <<"_">>

\* ids offered to Check(...) and copy_with_new_config
DATASET_X_0001 == DATASET \o U \o <<"X">> \o U \o <<"0", "0", "0", "1">>
SAMPLE_X_0002 == SAMPLE \o U \o <<"X">> \o U \o <<"0", "0", "0", "2">>
COMPONENT_Y_0003 == COMPONENT \o U \o <<"Y">> \o U \o <<"0", "0", "0", "3">>
BADSCOPE_X_1 == BADSCOPE \o U \o <<"X">> \o U \o <<"1">>
DATASET_X_001 == DATASET \o U \o <<"X">> \o U \o <<"0", "0", "1">>
DATASET_X_00012 == DATASET \o U \o <<"X">> \o U \o <<"0", "0", "0", "1", "2">>
DATASET_X_00a1 == DATASET \o U \o <<"X">> \o U \o <<"0", "0", "a", "1">>
DATASET_X_0001_NL == DATASET_X_0001 \o <<"\n">>     \* "DATASET_X_0001\n"

IdPool ==
    { DATASET_X_0001, COMPONENT_Y_0003, DATASET_X_0001_NL,
      BADSCOPE_X_1, DATASET_X_001, DATASET_X_00012, DATASET_X_00a1 }

-----------------------------------------------------------------------------
(* Inputs *)

DescriptionPool == { << <<"lit", "Check ">>, <<"ph", "x">> >>,     \* "Check {x}"
                     << <<"lit", "Plain check">> >> }

ConfigPool == { {}, {<<"x", "present">>} }

\* flag_desc literal of a rule: GREEN: "ok", RED1: "missing {field}"
FlagDescPool == { { <<"GREEN", << <<"lit", "ok">> >> >>,
                    <<"RED1", << <<"lit", "missing ">>, <<"ph", "field">> >> >> } }

\* rule bodies: "emit" returns Flag(code, check=c, message_args) for the code
\* and message_args it is called with; "crash" raises the exception it is
\* called with
FuncPool == {"emit", "crash"}

CodePool == {"RED1", "YELLOW1"}
MessageArgsPool == { {}, {<<"field", "md5">>} }
RaisePool == {"KeyError", "SystemExit"}

\* values ALLOWED_DEV_EXCEPTIONS takes: the default and a monkeypatched one
AllowedPool == { {"Exception"}, {"SystemExit"} }

NoArgs == <<>>

Ret(op, exc, self, val, args, raised) ==
    [op |-> op, exc |-> exc, self |-> self, val |-> val, args |-> args,
     raised |-> raised]

-----------------------------------------------------------------------------
(* Check *)

RegisteredIds == {checks[allChecks[i]].id : i \in DOMAIN allChecks}

\* variant: the uniqueness assertion is skipped
IdUnusedSkipped(id) == TRUE

\* "self.id not in [check.id for check in self.allChecks]"
IdUnused(id) == id \notin RegisteredIds

\* variant: self is appended to allChecks before the uniqueness assertion
PostInitRegisterFirst(description, id, config) ==
    LET formatted == StrFormat(description, config) IN
    IF formatted = FormatKeyError
    THEN [exc |-> "KeyError", registered |-> FALSE, description |-> description]
    ELSE IF ~IdRegexMatch(id)
    THEN [exc |-> "AssertionError", registered |-> FALSE, description |-> formatted]
    ELSE IF id \in RegisteredIds
    THEN [exc |-> "AssertionError", registered |-> TRUE, description |-> formatted]
    ELSE [exc |-> "none", registered |-> TRUE, description |-> formatted]

\* Check.__post_init__ up to the registration: the exception it raises
\* ("none" when it runs through), whether self was appended to allChecks,
\* and the formatted description.
PostInitOutcome(description, id, config) ==
    LET formatted == StrFormat(description, config) IN
    IF formatted = FormatKeyError
    THEN [exc |-> "KeyError", registered |-> FALSE, description |-> description]
    ELSE IF ~IdRegexMatch(id)
    THEN [exc |-> "AssertionError", registered |-> FALSE, description |-> formatted]
    ELSE IF ~IdUnused(id)
    THEN [exc |-> "AssertionError", registered |-> FALSE, description |-> formatted]
    ELSE [exc |-> "none", registered |-> TRUE, description |-> formatted]

\* The dataclass __init__ followed by __post_init__.  flag_desc and flags
\* are references; a reference one past the end of its heap is a new object
\* (a dict with the content literal, a list from
\* default_factory).
CheckInit(op, self, description, id, flag_desc, literal, validate_func, flags, config) ==
    \E out \in {PostInitOutcome(description, id, config)} :
        LET new == Len(checks) + 1
            obj == [description |-> out.description,
                    _proto_description |-> description,
                    id |-> id,
                    flag_desc |-> flag_desc,
                    validate_func |-> validate_func,
                    flags |-> flags,
                    config |-> config]
            dicts1 == IF flag_desc = Len(dicts) + 1
                      THEN Append(dicts, literal) ELSE dicts
            lists1 == IF flags = Len(lists) + 1 THEN Append(lists, <<>>) ELSE lists
        IN
        /\ out.registered => Len(checks) < MaxChecks
        /\ IF out.registered
           THEN /\ checks' = Append(checks, obj)
                /\ allChecks' = Append(allChecks, new)
                /\ lists' = lists1
                /\ dicts' = IF out.exc = "none"
                            THEN [dicts1 EXCEPT ![flag_desc] =
                                     Put(@, "DEV_UNHANDLED", DEV_UNHANDLED_TEMPLATE)]
                            ELSE dicts1
           ELSE UNCHANGED <<checks, allChecks, lists, dicts>>
        /\ ret' = Ret(op, out.exc, self, IF out.exc = "none" THEN new ELSE 0,
                      <<description, id, config>>, "none")
        /\ UNCHANGED <<ALLOWED_DEV_EXCEPTIONS, constructed>>
        /\ UNCHANGED vvVars

\* Check(description=..., id=..., flag_desc={...}, validate_func=..., config=...)
Check(description, id, flag_desc_literal, validate_func, config) ==
    CheckInit("Check", 0, description, id, Len(dicts) + 1, flag_desc_literal,
              validate_func, Len(lists) + 1, config)

\* variant: the copy is handed the source's flags list
copy_sharing_flags(self, id, config) ==
    /\ self \in DOMAIN checks
    /\ CheckInit("copy_with_new_config", self, checks[self]._proto_description, id,
                 checks[self].flag_desc, {}, checks[self].validate_func,
                 checks[self].flags, config)

copy_with_new_config(self, id, config) ==
    /\ self \in DOMAIN checks
    /\ CheckInit("copy_with_new_config", self, checks[self]._proto_description, id,
                 checks[self].flag_desc, {}, checks[self].validate_func,
                 Len(lists) + 1, config)

-----------------------------------------------------------------------------
(* Flag *)

NoFlag == [fid |-> 0]

\* strict_type_checks(flag) of dp_tools.core.model_commons: the fields have
\* their annotated types
strict_type_checks(flag) ==
    /\ flag.code \in FlagCode
    /\ flag.check \in DOMAIN checks

\* variant: flag_desc.get(code, "") instead of flag_desc[code]
FlagOutcomeDefaultMessage(code, check, message_args) ==
    LET flag_desc == dicts[checks[check].flag_desc]
        template == IF code \in Keys(flag_desc) THEN Get(flag_desc, code) ELSE <<>>
        message == StrFormat(template, message_args)
    IN IF message = FormatKeyError
       THEN [exc |-> "KeyError", flag |-> NoFlag]
       ELSE [exc |-> "none",
             flag |-> [fid |-> Len(constructed) + 1, code |-> code, check |-> check,
                       message_args |-> message_args, message |-> message]]

\* Flag.__post_init__ up to the type check: the exception it raises and the
\* finished Flag
FlagOutcome(code, check, message_args) ==
    LET flag_desc == dicts[checks[check].flag_desc] IN
    IF code \notin Keys(flag_desc)
    THEN [exc |-> "KeyError", flag |-> NoFlag]
    ELSE LET message == StrFormat(Get(flag_desc, code), message_args) IN
         IF message = FormatKeyError
         THEN [exc |-> "KeyError", flag |-> NoFlag]
         ELSE LET self == [fid |-> Len(constructed) + 1,
                           code |-> code,
                           check |-> check,
                           message_args |-> message_args,
                           message |-> message]
              IN IF ~strict_type_checks(self)
                 THEN [exc |-> "TypeError", flag |-> NoFlag]
                 ELSE [exc |-> "none", flag |-> self]

\* variant: insert(0, self) instead of append(self)
FlagsPrepend(ls, flag) ==
    [ls EXCEPT ![checks[flag.check].flags] = <<flag>> \o @]

\* "self.check.flags.append(self)"
FlagsAppend(ls, flag) ==
    [ls EXCEPT ![checks[flag.check].flags] = Append(@, flag)]

\* state change of a Flag construction with outcome out
FlagEffect(out) ==
    IF out.exc = "none"
    THEN /\ lists' = FlagsAppend(lists, out.flag)
         /\ constructed' = Append(constructed, out.flag)
    ELSE UNCHANGED <<lists, constructed>>

\* Flag(code=..., check=..., message_args=...) called directly
Flag(code, check, message_args) ==
    /\ check \in DOMAIN checks
    /\ Len(constructed) < MaxFlags
    /\ \E out \in {FlagOutcome(code, check, message_args)} :
       /\ FlagEffect(out)
       /\ ret' = Ret("Flag", out.exc, check, out.flag.fid, <<code>>, "none")
    /\ UNCHANGED <<ALLOWED_DEV_EXCEPTIONS, allChecks, checks, dicts>>
    /\ UNCHANGED vvVars

-----------------------------------------------------------------------------
(* Check.validate *)

\* self.validate_func(self, *args): a Flag construction for "emit", a raise
\* for "crash"
ValidateFuncOutcome(self, args) ==
    IF checks[self].validate_func = "emit"
    THEN FlagOutcome(args[1], self, args[2])
    ELSE [exc |-> args[1], flag |-> NoFlag]

validate(self, args) ==
    /\ self \in DOMAIN checks
    /\ Len(constructed) < MaxFlags
    /\ \E inner \in {ValidateFuncOutcome(self, args)} :
       IF inner.exc = "none"
       THEN /\ FlagEffect(inner)
            /\ ret' = Ret("validate", "none", self, inner.flag.fid, NoArgs, "none")
       ELSE IF Caught(inner.exc)
       THEN \E out \in {FlagOutcome("DEV_UNHANDLED", self,
                              { <<"function", checks[self].validate_func>>,
                                <<"e", inner.exc>> })} :
               /\ FlagEffect(out)
               /\ ret' = Ret("validate", out.exc, self, out.flag.fid, NoArgs, inner.exc)
       ELSE /\ UNCHANGED <<lists, constructed>>
            /\ ret' = Ret("validate", inner.exc, self, 0, NoArgs, inner.exc)
    /\ UNCHANGED <<ALLOWED_DEV_EXCEPTIONS, allChecks, checks, dicts>>
    /\ UNCHANGED vvVars

\* arguments a rule body is called with
ArgsPool(validate_func) ==
    IF validate_func = "emit"
    THEN {<<code, message_args>> : code \in CodePool, message_args \in MessageArgsPool}
    ELSE {<<e>> : e \in RaisePool}

\* monkeypatch.setattr(check_model, "ALLOWED_DEV_EXCEPTIONS", value)
monkeypatch(value) ==
    /\ ALLOWED_DEV_EXCEPTIONS # value
    /\ ALLOWED_DEV_EXCEPTIONS' = value
    /\ ret' = Ret("monkeypatch", "none", 0, 0, NoArgs, "none")
    /\ UNCHANGED <<allChecks, checks, dicts, lists, constructed>>
    /\ UNCHANGED vvVars

-----------------------------------------------------------------------------
(* VVProtocol *)

DatasetEntities == {"dataset1"}
SampleEntities == {"sample1", "sample2"}
ComponentEntities == {"component1"}

\* lists of Flags a validate_* implementation files under an entity
FlagListPool == { <<"flagA">>, <<"flagB">> }

\* all mappings entity -> list[Flag] over the entities E
MappingPool(E) ==
    UNION { { {<<e, f[e]>> : e \in S} : f \in [S -> FlagListPool] } : S \in SUBSET E }

\* outcome of one abstract validate_* method: a returned mapping or a raise
OutcomePool(E) ==
    {[exc |-> "none", value |-> m] : m \in MappingPool(E)}
        \cup {[exc |-> "RuntimeError", value |-> {}]}

ExpectedDatasetClass == "BulkRNASeqDataset"
DatasetClassPool == {"BulkRNASeqDataset", "OtherDataset"}

Unset == "unset"
EmptyFlags == [dataset |-> {}, sample |-> {}, component |-> {}]

VVProtocol__init__(dataset) ==
    /\ protocol = "none"
    /\ IF dataset = ExpectedDatasetClass
       THEN /\ protocol' = "constructed"
            /\ _flags' = EmptyFlags
            /\ ret' = Ret("VVProtocol", "none", 0, 0, <<dataset>>, "none")
       ELSE /\ UNCHANGED <<protocol, _flags>>
            /\ ret' = Ret("VVProtocol", "AssertionError", 0, 0, <<dataset>>, "none")
    /\ UNCHANGED <<prev_flags, returned, calls, runs>>
    /\ UNCHANGED checkVars

\* variant: validate_components is called before validate_samples and each
\* result is filed under the other's key
ValidateAllSwapped(flags, d, s, c) ==
    LET flags1 == [flags EXCEPT !.dataset = DictUpdate(@, d.value)]
        flags2 == [flags1 EXCEPT !.sample = DictUpdate(@, c.value)]
        flags3 == [flags2 EXCEPT !.component = DictUpdate(@, s.value)]
    IN
    IF d.exc # "none"
    THEN [exc |-> d.exc, flags |-> flags,
          calls |-> <<"validate_dataset">>,
          returned |-> EmptyFlags]
    ELSE IF c.exc # "none"
    THEN [exc |-> c.exc, flags |-> flags1,
          calls |-> <<"validate_dataset", "validate_components">>,
          returned |-> [EmptyFlags EXCEPT !.dataset = d.value]]
    ELSE IF s.exc # "none"
    THEN [exc |-> s.exc, flags |-> flags2,
          calls |-> <<"validate_dataset", "validate_components", "validate_samples">>,
          returned |-> [EmptyFlags EXCEPT !.dataset = d.value, !.component = c.value]]
    ELSE [exc |-> "none", flags |-> flags3,
          calls |-> <<"validate_dataset", "validate_components", "validate_samples">>,
          returned |-> [dataset |-> d.value, sample |-> s.value, component |-> c.value]]

\* validate_all on the mappings flags, where the three abstract methods
\* behave as d, s and c: the exception that escapes, the mappings
\* afterwards, the abstract methods called in order, and what they returned
ValidateAllOutcome(flags, d, s, c) ==
    LET flags1 == [flags EXCEPT !.dataset = DictUpdate(@, d.value)]
        flags2 == [flags1 EXCEPT !.sample = DictUpdate(@, s.value)]
        flags3 == [flags2 EXCEPT !.component = DictUpdate(@, c.value)]
    IN
    IF d.exc # "none"
    THEN [exc |-> d.exc, flags |-> flags,
          calls |-> <<"validate_dataset">>,
          returned |-> EmptyFlags]
    ELSE IF s.exc # "none"
    THEN [exc |-> s.exc, flags |-> flags1,
          calls |-> <<"validate_dataset", "validate_samples">>,
          returned |-> [EmptyFlags EXCEPT !.dataset = d.value]]
    ELSE IF c.exc # "none"
    THEN [exc |-> c.exc, flags |-> flags2,
          calls |-> <<"validate_dataset", "validate_samples", "validate_components">>,
          returned |-> [EmptyFlags EXCEPT !.dataset = d.value, !.sample = s.value]]
    ELSE [exc |-> "none", flags |-> flags3,
          calls |-> <<"validate_dataset", "validate_samples", "validate_components">>,
          returned |-> [dataset |-> d.value, sample |-> s.value, component |-> c.value]]

validate_all(d, s, c) ==
    /\ protocol = "constructed"
    /\ runs < MaxRuns
    /\ \E out \in {ValidateAllOutcome(_flags, d, s, c)} :
       /\ _flags' = out.flags
       /\ prev_flags' = _flags
       /\ returned' = out.returned
       /\ calls' = out.calls
       /\ runs' = runs + 1
       /\ ret' = Ret("validate_all", out.exc, 0, 0, NoArgs, "none")
    /\ UNCHANGED protocol
    /\ UNCHANGED checkVars

-----------------------------------------------------------------------------
(* Specifications *)

Init ==
    /\ ALLOWED_DEV_EXCEPTIONS = {"Exception"}
    /\ allChecks = <<>>
    /\ checks = <<>>
    /\ dicts = <<>>
    /\ lists = <<>>
    /\ constructed = <<>>
    /\ ret = Ret("init", "none", 0, 0, NoArgs, "none")
    /\ protocol = "none"
    /\ _flags = Unset
    /\ prev_flags = Unset
    /\ returned = Unset
    /\ calls = <<>>
    /\ runs = 0

\* the engine as a protocol uses it: rules with well-formed ids are built
\* and copied, run through validate, and flags are filed
RuleIdPool == { SAMPLE_X_0002, COMPONENT_Y_0003 }
RuleDescriptionPool == { d \in DescriptionPool : Len(d) = 2 }
RuleConfigPool == { c \in ConfigPool : c # {} }

Next ==
    \/ \E description \in RuleDescriptionPool, id \in RuleIdPool,
          flag_desc \in FlagDescPool, validate_func \in FuncPool,
          config \in RuleConfigPool :
          Check(description, id, flag_desc, validate_func, config)
    \/ \E self \in DOMAIN checks, id \in RuleIdPool, config \in RuleConfigPool :
          copy_with_new_config(self, id, config)
    \/ \E code \in CodePool, check \in DOMAIN checks,
          message_args \in MessageArgsPool :
          Flag(code, check, message_args)
    \/ \E self \in DOMAIN checks :
          \E args \in ArgsPool(checks[self].validate_func) : validate(self, args)
    \/ \E value \in AllowedPool : monkeypatch(value)

Spec == Init /\ [][Next]_vars

\* the registry: construction and copying with every id, description and
\* config of the pools
NextRegistry ==
    \/ \E description \in DescriptionPool, id \in IdPool,
          flag_desc \in FlagDescPool, validate_func \in {"emit"},
          config \in ConfigPool :
          Check(description, id, flag_desc, validate_func, config)
    \/ \E self \in DOMAIN checks, id \in IdPool, config \in ConfigPool :
          copy_with_new_config(self, id, config)

SpecRegistry == Init /\ [][NextRegistry]_vars

\* the orchestrator, with the abstract validate_* methods as inputs
NextVV ==
    \/ \E dataset \in DatasetClassPool : VVProtocol__init__(dataset)
    \/ \E d \in OutcomePool(DatasetEntities), s \in OutcomePool(SampleEntities),
          c \in OutcomePool(ComponentEntities) : validate_all(d, s, c)

SpecVV == Init /\ [][NextVV]_vars

-----------------------------------------------------------------------------
(* Properties *)

ConstructionOps == {"Check", "copy_with_new_config"}
Scopes == {"dataset", "sample", "component"}

\* the registered checks other than the one the last operation returned
OtherRegistered == {allChecks[i] : i \in DOMAIN allChecks} \ {ret.val}

\* C1: a construction (direct or through copy_with_new_config) whose id is
\* already held by a registered check fails, whatever its config and
\* description, and the ids of the checks in allChecks are pairwise distinct.
C1_UniqueIds ==
    /\ \A i, j \in DOMAIN allChecks :
           i # j => checks[allChecks[i]].id # checks[allChecks[j]].id
    /\ (/\ ret.op \in ConstructionOps
        /\ \E c \in OtherRegistered : checks[c].id = ret.args[2])
           => ret.exc # "none"

\* a copy with an id in use, a different config and a different description
\* template than the holder of the id, was rejected by the uniqueness check
C1_Witness ==
    /\ ret.op = "copy_with_new_config"
    /\ ret.exc = "AssertionError"
    /\ IdRegexMatch(ret.args[2])
    /\ StrFormat(ret.args[1], ret.args[3]) # FormatKeyError
    /\ \E c \in OtherRegistered :
           /\ checks[c].id = ret.args[2]
           /\ checks[c].config # ret.args[3]
           /\ checks[c]._proto_description # ret.args[1]

\* the exclusion set of validate's catch-all: the exceptions that are not
\* instances of a class of ALLOWED_DEV_EXCEPTIONS
InExclusionSet(e, allowed) == \A a \in allowed : ~IsSubclass(e, a)

\* C2: when validate_func raises an exception outside the exclusion set,
\* validate returns a Flag with code DEV_UNHANDLED whose check is this Check
\* (the last entry of its flags) and raises nothing.
C2_UnhandledBecomesFlag ==
    (/\ ret.op = "validate"
     /\ ret.raised # "none"
     /\ ~InExclusionSet(ret.raised, ALLOWED_DEV_EXCEPTIONS))
        => /\ ret.exc = "none"
           /\ ret.val \in DOMAIN constructed
           /\ constructed[ret.val].code = "DEV_UNHANDLED"
           /\ constructed[ret.val].check = ret.self
           /\ Len(lists[checks[ret.self].flags]) > 0
           /\ Last(lists[checks[ret.self].flags]) = constructed[ret.val]

C2_Witness ==
    /\ ret.op = "validate"
    /\ ret.raised = "KeyError"
    /\ ALLOWED_DEV_EXCEPTIONS = {"Exception"}
    /\ ret.exc = "none"
    /\ constructed[ret.val].code = "DEV_UNHANDLED"

\* C3: when validate_func raises an exception of the exclusion set, validate
\* raises that exception and appends no Flag to any flags list.
C3_ExcludedPropagates ==
    [][(/\ ret'.op = "validate"
        /\ ret'.raised # "none"
        /\ InExclusionSet(ret'.raised, ALLOWED_DEV_EXCEPTIONS'))
           => /\ ret'.exc = ret'.raised
              /\ lists' = lists
              /\ constructed' = constructed]_vars

C3_Witness ==
    /\ ret.op = "validate"
    /\ ret.raised = "SystemExit"
    /\ ret.exc = "SystemExit"
    /\ ALLOWED_DEV_EXCEPTIONS = {"Exception"}
    /\ checks[ret.self].validate_func = "crash"

FlagsOf(c) == lists[checks[c].flags]

ConstructedFor(c) ==
    LET ForCheck(f) == f.check = c IN SelectSeq(constructed, ForCheck)

\* C7: the flags of a check are exactly the Flags constructed for it, each
\* once, in construction order; and an operation only ever appends to a
\* flags list.
C7_FlagsHistory ==
    /\ [](\A c \in DOMAIN checks : FlagsOf(c) = ConstructedFor(c))
    /\ [][\A l \in DOMAIN lists : IsPrefix(lists[l], lists'[l])]_vars

\* a check holds two flags, the later one filed by validate
C7_Witness ==
    /\ ret.op = "validate"
    /\ ret.exc = "none"
    /\ Len(FlagsOf(ret.self)) >= 2
    /\ Last(FlagsOf(ret.self)).fid = ret.val

\* C8: the check that copy_with_new_config returns has an empty flags list,
\* and no flags list ever holds a Flag of another check: the flags of the
\* source stay out of the copy's list and the other way round.
C8_CopyFlagsIndependent ==
    /\ (ret.op = "copy_with_new_config" /\ ret.exc = "none")
           => FlagsOf(ret.val) = <<>>
    /\ \A c \in DOMAIN checks : \A f \in Elems(FlagsOf(c)) : f.check = c

\* a source and its copy (same flag_desc object) that both produced flags
C8_Witness ==
    \E src, cpy \in DOMAIN checks :
        /\ src < cpy
        /\ checks[src].flag_desc = checks[cpy].flag_desc
        /\ FlagsOf(src) # <<>>
        /\ FlagsOf(cpy) # <<>>

\* C9: a Flag construction with a code that is not a key of its check's
\* flag_desc fails and appends nothing.
C9_UnknownCodeFails ==
    [][(/\ ret'.op = "Flag"
        /\ ret'.args[1] \notin Keys(dicts[checks[ret'.self].flag_desc]))
           => /\ ret'.exc # "none"
              /\ lists' = lists
              /\ constructed' = constructed]_vars

C9_Witness ==
    /\ ret.op = "Flag"
    /\ ret.args[1] = "YELLOW1"
    /\ "YELLOW1" \notin Keys(dicts[checks[ret.self].flag_desc])
    /\ ret.exc = "KeyError"

\* C10: a failed construction leaves allChecks and the registered checks as
\* they were, and allChecks changes only by a successful construction
\* appending the new check.
C10_FailedConstructionKeepsRegistry ==
    [][/\ (ret'.op \in ConstructionOps /\ ret'.exc # "none")
              => (allChecks' = allChecks /\ checks' = checks)
       /\ allChecks' # allChecks
              => /\ ret'.op \in ConstructionOps
                 /\ ret'.exc = "none"
                 /\ allChecks' = Append(allChecks, ret'.val)
                 /\ \A c \in DOMAIN checks : checks'[c] = checks[c]]_vars

\* a construction failed on its description with a check registered
C10_Witness ==
    /\ ret.op = "Check"
    /\ ret.exc = "KeyError"
    /\ Len(allChecks) >= 1

\* the id format of the specification: a scope, "_", a word without digits
\* or line breaks, "_", exactly four digits, and nothing after them
SpecIdPattern(id) ==
    \E scope \in ScopeAlternatives :
        /\ IsPrefix(scope, id)
        /\ Len(id) >= Len(scope) + 6
        /\ id[Len(scope) + 1] = "_"
        /\ \A j \in (Len(scope) + 2)..(Len(id) - 5) : ~IsDigit(id[j]) /\ id[j] # "\n"
        /\ id[Len(id) - 4] = "_"
        /\ \A j \in (Len(id) - 3)..Len(id) : IsDigit(id[j])

\* C6: a construction with an unused id of the format SCOPE_WORD_NNNN (and a
\* description that formats) succeeds, and a construction with an id that
\* violates the format fails.
C6_IdFormat ==
    ret.op \in ConstructionOps =>
        /\ ~SpecIdPattern(ret.args[2]) => ret.exc # "none"
        /\ (/\ SpecIdPattern(ret.args[2])
            /\ StrFormat(ret.args[1], ret.args[3]) # FormatKeyError
            /\ \A c \in OtherRegistered : checks[c].id # ret.args[2])
               => ret.exc = "none"

\* C5: a validate_all that returns has called validate_dataset,
\* validate_samples, validate_components, once each and in that order, and
\* every returned mapping is in flags under its own key: each key holds what
\* it held before updated by its own returned mapping and nothing else.
C5_OrderAndUnion ==
    (ret.op = "validate_all" /\ ret.exc = "none")
        => /\ calls = <<"validate_dataset", "validate_samples", "validate_components">>
           /\ \A k \in Scopes :
                  /\ returned[k] \subseteq _flags[k]
                  /\ _flags[k] \subseteq (prev_flags[k] \cup returned[k])
           /\ prev_flags = EmptyFlags => _flags = returned

C5_Witness ==
    /\ ret.op = "validate_all"
    /\ ret.exc = "none"
    /\ \A k \in Scopes : returned[k] # {}
    /\ _flags = returned

\* C4 as stated: every flag that was stored under an entity key before a
\* validate_all call is still stored under that key after it.
C4_NoFlagDropped ==
    ret.op = "validate_all" =>
        \A k \in Scopes : \A p \in prev_flags[k] :
            \E q \in _flags[k] : q[1] = p[1] /\ Elems(p[2]) \subseteq Elems(q[2])

\* C4 amended: validate_all keeps every entity key; a key that the newly
\* returned mapping does not contain keeps its list, and a key that it
\* contains holds the newly returned list in place of the earlier one.
C4_KeysAccumulate ==
    ret.op = "validate_all" =>
        \A k \in Scopes : \A p \in prev_flags[k] :
            /\ p[1] \in Keys(_flags[k])
            /\ p[1] \notin Keys(returned[k]) => p \in _flags[k]
            /\ p[1] \in Keys(returned[k])
                   => Get(_flags[k], p[1]) = Get(returned[k], p[1])

\* a second validate_all returned another list for a stored key and left
\* a second stored key out
C4_Witness ==
    /\ ret.op = "validate_all"
    /\ runs >= 2
    /\ \E p \in prev_flags["sample"] :
           /\ p[1] \in Keys(returned["sample"])
           /\ Get(returned["sample"], p[1]) # p[2]
           /\ Get(_flags["sample"], p[1]) # p[2]
    /\ \E p \in prev_flags["sample"] :
           /\ p[1] \notin Keys(returned["sample"])
           /\ p \in _flags["sample"]

=============================================================================
